---- MODULE Spec2Model ----
(***************************************************************************)
(* A model of the "life" reasoning engine:                                 *)
(*   ConceptGraph        (src/src/life/concept_graph.py)                   *)
(*   MetacognitionSpace  (src/src/life/metacognition.py)                   *)
(*   IdeologyFramework   (src/src/life/ideology.py)                        *)
(* Text is modelled as sequences of one-character strings so that          *)
(* lower(), replace(), split() and the substring test are computed.        *)
(* Numbers in [0,1] (confidences, thresholds, weights) are hundredths.     *)
(***************************************************************************)
EXTENDS Integers, Sequences, FiniteSets, TLC

VARIABLES graph, confidence_threshold, thinking_log, ideologies, ret

vars == <<graph, confidence_threshold, thinking_log, ideologies, ret>>

(***************************************************************************)
(* Bounds of the model                                                     *)
(***************************************************************************)
MaxEdges == 2
MaxLog == 1
MaxIdeologies == 2
MaxHistory == 2

(***************************************************************************)
(* Input domains                                                           *)
(***************************************************************************)
Names == {"Law", "Bylaw", "Lawyer", "Tax"}
Labels == {"relates_to", "No connection"}
Times == {"t1", "t2"}
Questions == {"What is law?", "Tax, law?", "What is it?"}

None == "None"

\* The characters of every text the model feeds to the string operations.
Chars ==
  [ Law |-> <<"L","a","w">>,
    Bylaw |-> <<"B","y","l","a","w">>,
    Lawyer |-> <<"L","a","w","y","e","r">>,
    Tax |-> <<"T","a","x">> ]
  @@ ("What is law?" :> <<"W","h","a","t"," ","i","s"," ","l","a","w","?">>)
  @@ ("Tax, law?" :> <<"T","a","x",","," ","l","a","w","?">>)
  @@ ("What is it?" :> <<"W","h","a","t"," ","i","s"," ","i","t","?">>)
  @@ ("relates_to" :> <<"r","e","l","a","t","e","s","_","t","o">>)
  @@ ("No connection" :> <<"N","o"," ","c","o","n","n","e","c","t","i","o","n">>)
  @@ ("New law" :> <<"N","e","w"," ","l","a","w">>)
  @@ ("Fair market" :> <<"F","a","i","r"," ","m","a","r","k","e","t">>)
  @@ ("Market law" :> <<"M","a","r","k","e","t"," ","l","a","w">>)
  @@ ("Freedom" :> <<"F","r","e","e","d","o","m">>)
  @@ ("government" :> <<"g","o","v","e","r","n","m","e","n","t">>)
  @@ ("regulation" :> <<"r","e","g","u","l","a","t","i","o","n">>)
  @@ ("law" :> <<"l","a","w">>)
  @@ ("mandate" :> <<"m","a","n","d","a","t","e">>)
  @@ ("economy" :> <<"e","c","o","n","o","m","y">>)
  @@ ("market" :> <<"m","a","r","k","e","t">>)
  @@ ("business" :> <<"b","u","s","i","n","e","s","s">>)
  @@ ("wealth" :> <<"w","e","a","l","t","h">>)
  @@ ("freedom" :> <<"f","r","e","e","d","o","m">>)
  @@ ("equality" :> <<"e","q","u","a","l","i","t","y">>)
  @@ ("security" :> <<"s","e","c","u","r","i","t","y">>)
  @@ ("property" :> <<"p","r","o","p","e","r","t","y">>)
  @@ ("collective" :> <<"c","o","l","l","e","c","t","i","v","e">>)
  @@ ("liberty" :> <<"l","i","b","e","r","t","y">>)
  @@ ("choice" :> <<"c","h","o","i","c","e">>)
  @@ ("autonomy" :> <<"a","u","t","o","n","o","m","y">>)
  @@ ("equal" :> <<"e","q","u","a","l">>)
  @@ ("fair" :> <<"f","a","i","r">>)
  @@ ("equitable" :> <<"e","q","u","i","t","a","b","l","e">>)
  @@ ("safe" :> <<"s","a","f","e">>)
  @@ ("protect" :> <<"p","r","o","t","e","c","t">>)
  @@ ("stability" :> <<"s","t","a","b","i","l","i","t","y">>)
  @@ ("ownership" :> <<"o","w","n","e","r","s","h","i","p">>)
  @@ ("private" :> <<"p","r","i","v","a","t","e">>)
  @@ ("assets" :> <<"a","s","s","e","t","s">>)
  @@ ("common" :> <<"c","o","m","m","o","n">>)
  @@ ("shared" :> <<"s","h","a","r","e","d">>)
  @@ ("together" :> <<"t","o","g","e","t","h","e","r">>)
  @@ ("limited_government" :> <<"l","i","m","i","t","e","d","_","g","o","v","e","r","n","m","e","n","t">>)
  @@ ("collective_welfare" :> <<"c","o","l","l","e","c","t","i","v","e","_","w","e","l","f","a","r","e">>)
  @@ ("free_markets" :> <<"f","r","e","e","_","m","a","r","k","e","t","s">>)

(***************************************************************************)
(* str.lower, str.replace(ch, ''), str.split, `in` on strings              *)
(***************************************************************************)
UpperToLower ==
  [ c \in {"B", "F", "L", "M", "N", "T", "W"} |->
      CASE c = "B" -> "b" [] c = "F" -> "f" [] c = "L" -> "l" [] c = "M" -> "m"
        [] c = "N" -> "n" [] c = "T" -> "t" [] c = "W" -> "w" ]

LowerChar(c) == IF c \in DOMAIN UpperToLower THEN UpperToLower[c] ELSE c

Lower(s) == [i \in 1..Len(s) |-> LowerChar(s[i])]

Remove(s, ch) == SelectSeq(s, LAMBDA c : c # ch)

RECURSIVE SplitFrom(_, _, _, _)
SplitFrom(s, i, word, acc) ==
  IF i > Len(s)
    THEN IF word = <<>> THEN acc ELSE Append(acc, word)
    ELSE IF s[i] = " "
           THEN SplitFrom(s, i + 1, <<>>, IF word = <<>> THEN acc ELSE Append(acc, word))
           ELSE SplitFrom(s, i + 1, Append(word, s[i]), acc)

Split(s) == SplitFrom(s, 1, <<>>, <<>>)

IsSubstring(w, s) ==
  \E i \in 0..(Len(s) - Len(w)) : \A j \in 1..Len(w) : s[i + j] = w[j]

(***************************************************************************)
(* networkx.DiGraph as used by ConceptGraph: node order, node attribute    *)
(* dictionaries, successor and predecessor lists in insertion order, and   *)
(* the 'relationship' attribute of every edge.                             *)
(***************************************************************************)
EmptyGraph ==
  [ nodes |-> <<>>,
    attr |-> [n \in {} |-> [k \in {} |-> ""]],
    succ |-> [n \in {} |-> <<>>],
    pred |-> [n \in {} |-> <<>>],
    rel |-> [e \in {} |-> ""] ]

Range(s) == {s[i] : i \in 1..Len(s)}

NodeSet(G) == Range(G.nodes)

EdgeSet(G) == DOMAIN G.rel

number_of_edges(G) == Cardinality(EdgeSet(G))

\* dict.update
Update(d, a) ==
  [k \in (DOMAIN d) \cup (DOMAIN a) |-> IF k \in DOMAIN a THEN a[k] ELSE d[k]]

\* add_node that forgets the attributes a node already has
AddNodeOverwrite(G, n, a) ==
  IF n \in NodeSet(G)
    THEN [G EXCEPT !.attr = [m \in NodeSet(G) |-> IF m = n THEN a ELSE G.attr[m]]]
    ELSE [ nodes |-> Append(G.nodes, n),
           attr |-> [m \in NodeSet(G) \cup {n} |-> IF m = n THEN a ELSE G.attr[m]],
           succ |-> [m \in NodeSet(G) \cup {n} |-> IF m = n THEN <<>> ELSE G.succ[m]],
           pred |-> [m \in NodeSet(G) \cup {n} |-> IF m = n THEN <<>> ELSE G.pred[m]],
           rel |-> G.rel ]

\* DiGraph.add_node(n, **a)
AddNode(G, n, a) ==
  IF n \in NodeSet(G)
    THEN [G EXCEPT !.attr = [m \in NodeSet(G) |-> IF m = n THEN Update(G.attr[m], a) ELSE G.attr[m]]]
    ELSE [ nodes |-> Append(G.nodes, n),
           attr |-> [m \in NodeSet(G) \cup {n} |-> IF m = n THEN a ELSE G.attr[m]],
           succ |-> [m \in NodeSet(G) \cup {n} |-> IF m = n THEN <<>> ELSE G.succ[m]],
           pred |-> [m \in NodeSet(G) \cup {n} |-> IF m = n THEN <<>> ELSE G.pred[m]],
           rel |-> G.rel ]

NoAttrs == [k \in {} |-> ""]

\* add_edge that keeps the label of an edge that exists
AddEdgeKeepLabel(G, u, v, r) ==
  LET G1 == IF u \in NodeSet(G) THEN G ELSE AddNode(G, u, NoAttrs)
      G2 == IF v \in NodeSet(G1) THEN G1 ELSE AddNode(G1, v, NoAttrs)
  IN [ G2 EXCEPT
         !.succ = [m \in NodeSet(G2) |->
                     IF m = u /\ v \notin Range(G2.succ[m])
                       THEN Append(G2.succ[m], v) ELSE G2.succ[m]],
         !.pred = [m \in NodeSet(G2) |->
                     IF m = v /\ u \notin Range(G2.pred[m])
                       THEN Append(G2.pred[m], u) ELSE G2.pred[m]],
         !.rel = [e \in EdgeSet(G2) \cup {<<u, v>>} |->
                     IF e \in EdgeSet(G2) THEN G2.rel[e] ELSE r] ]

\* add_edge that records a second edge for a pair that is already connected
AddEdgeParallel(G, u, v, r) ==
  LET G1 == IF u \in NodeSet(G) THEN G ELSE AddNode(G, u, NoAttrs)
      G2 == IF v \in NodeSet(G1) THEN G1 ELSE AddNode(G1, v, NoAttrs)
  IN [ G2 EXCEPT
         !.succ = [m \in NodeSet(G2) |->
                     IF m = u THEN Append(G2.succ[m], v) ELSE G2.succ[m]],
         !.pred = [m \in NodeSet(G2) |->
                     IF m = v THEN Append(G2.pred[m], u) ELSE G2.pred[m]],
         !.rel = [e \in EdgeSet(G2) \cup {<<u, v>>} |->
                     IF e = <<u, v>> THEN r ELSE G2.rel[e]] ]

\* DiGraph.add_edge(u, v, relationship=r)
AddEdge(G, u, v, r) ==
  LET G1 == IF u \in NodeSet(G) THEN G ELSE AddNode(G, u, NoAttrs)
      G2 == IF v \in NodeSet(G1) THEN G1 ELSE AddNode(G1, v, NoAttrs)
  IN [ G2 EXCEPT
         !.succ = [m \in NodeSet(G2) |->
                     IF m = u /\ v \notin Range(G2.succ[m])
                       THEN Append(G2.succ[m], v) ELSE G2.succ[m]],
         !.pred = [m \in NodeSet(G2) |->
                     IF m = v /\ u \notin Range(G2.pred[m])
                       THEN Append(G2.pred[m], u) ELSE G2.pred[m]],
         !.rel = [e \in EdgeSet(G2) \cup {<<u, v>>} |->
                     IF e = <<u, v>> THEN r ELSE G2.rel[e]] ]

(***************************************************************************)
(* ConceptGraph                                                            *)
(***************************************************************************)
\* The keyword arguments add_concept hands to add_node: type, definition and
\* learned_at, then **attributes, whose keys are other than these three.
ConceptAttrs(concept_type, definition, now, attributes) ==
  Update([type |-> concept_type, definition |-> definition, learned_at |-> now],
         attributes)

get_concept(G, name) ==
  IF name \notin NodeSet(G)
    THEN [kind |-> "None"]
    ELSE [kind |-> "dict", attrs |-> G.attr[name]]

\* ConceptGraph.explain_concept
explain_concept(G, concept) ==
  IF concept \notin NodeSet(G)
    THEN [kind |-> "unlearned", concept |-> concept]
    ELSE LET attrs == G.attr[concept]
             outgoing == [i \in 1..Len(G.succ[concept]) |->
                            [target |-> G.succ[concept][i],
                             rel |-> G.rel[<<concept, G.succ[concept][i]>>]]]
             incoming == [i \in 1..Len(G.pred[concept]) |->
                            [source |-> G.pred[concept][i],
                             rel |-> G.rel[<<G.pred[concept][i], concept>>]]]
         IN [ kind |-> "explanation",
              concept |-> concept,
              definition |-> IF "definition" \in DOMAIN attrs /\ attrs["definition"] # ""
                               THEN <<attrs["definition"]>> ELSE <<>>,
              outgoing |-> outgoing,
              incoming |-> incoming ]

(***************************************************************************)
(* networkx.shortest_path(G, source, target) without weights: the          *)
(* bidirectional breadth-first search of bidirectional_shortest_path.      *)
(***************************************************************************)
RECURSIVE FlattenFirstOnly(_, _, _)
\* the scan that looks at the first neighbour of every v only
FlattenFirstOnly(this_level, adj, i) ==
  IF i > Len(this_level) THEN <<>>
  ELSE [j \in 1..(IF adj[this_level[i]] = <<>> THEN 0 ELSE 1) |->
          <<this_level[i], adj[this_level[i]][j]>>]
         \o FlattenFirstOnly(this_level, adj, i + 1)

RECURSIVE Flatten(_, _, _)
\* the (v, w) pairs visited by "for v in this_level: for w in adj[v]"
Flatten(this_level, adj, i) ==
  IF i > Len(this_level) THEN <<>>
  ELSE [j \in 1..Len(adj[this_level[i]]) |-> <<this_level[i], adj[this_level[i]][j]>>]
         \o Flatten(this_level, adj, i + 1)

RECURSIVE ScanLevel(_, _, _, _, _)
\* one level of the search: mine is the map being grown, other the opposite map
ScanLevel(pairs, i, mine, other, fringe) ==
  IF i > Len(pairs)
    THEN [found |-> FALSE, w |-> None, mine |-> mine, fringe |-> fringe]
    ELSE LET v == pairs[i][1]
             w == pairs[i][2]
             fresh == w \notin DOMAIN mine
             mine2 == IF fresh THEN mine @@ (w :> v) ELSE mine
             fringe2 == IF fresh THEN Append(fringe, w) ELSE fringe
         IN IF w \in DOMAIN other
              THEN [found |-> TRUE, w |-> w, mine |-> mine2, fringe |-> fringe2]
              ELSE ScanLevel(pairs, i + 1, mine2, other, fringe2)

RECURSIVE BidirectionalLoop(_, _, _, _, _)
BidirectionalLoop(G, pred, succ, forward_fringe, reverse_fringe) ==
  IF forward_fringe = <<>> \/ reverse_fringe = <<>>
    THEN [found |-> FALSE, w |-> None, pred |-> pred, succ |-> succ]
    ELSE IF Len(forward_fringe) <= Len(reverse_fringe)
      THEN LET r == ScanLevel(Flatten(forward_fringe, G.succ, 1), 1, pred, succ, <<>>)
           IN IF r.found
                THEN [found |-> TRUE, w |-> r.w, pred |-> r.mine, succ |-> succ]
                ELSE BidirectionalLoop(G, r.mine, succ, r.fringe, reverse_fringe)
      ELSE LET r == ScanLevel(Flatten(reverse_fringe, G.pred, 1), 1, succ, pred, <<>>)
           IN IF r.found
                THEN [found |-> TRUE, w |-> r.w, pred |-> pred, succ |-> r.mine]
                ELSE BidirectionalLoop(G, pred, r.mine, forward_fringe, r.fringe)

bidirectional_pred_succ(G, source, target) ==
  IF target = source
    THEN [found |-> TRUE, w |-> source, pred |-> (target :> None), succ |-> (source :> None)]
    ELSE BidirectionalLoop(G, (source :> None), (target :> None), <<source>>, <<target>>)

RECURSIVE Chain(_, _)
\* follow a pred/succ map from w until None, w included
Chain(map, w) == IF w = None THEN <<>> ELSE <<w>> \o Chain(map, map[w])

Reverse(s) == [i \in 1..Len(s) |-> s[Len(s) + 1 - i]]

\* the node list of shortest_path, for source and target in G with a path
BuildPath(r) ==
  LET head == Reverse(Chain(r.pred, r.w))
  IN head \o Chain(r.succ, r.succ[head[Len(head)]])

\* shortest_path that treats a missing node as an unreachable one
shortest_path_no_node_check(G, source, target) ==
  IF source \notin NodeSet(G) \/ target \notin NodeSet(G)
    THEN [raised |-> "NetworkXNoPath", path |-> <<>>]
    ELSE LET r == bidirectional_pred_succ(G, source, target)
         IN IF r.found
              THEN [raised |-> "none", path |-> BuildPath(r)]
              ELSE [raised |-> "NetworkXNoPath", path |-> <<>>]

shortest_path(G, source, target) ==
  IF source \notin NodeSet(G) \/ target \notin NodeSet(G)
    THEN [raised |-> "NodeNotFound", path |-> <<>>]
    ELSE LET r == bidirectional_pred_succ(G, source, target)
         IN IF r.found
              THEN [raised |-> "none", path |-> BuildPath(r)]
              ELSE [raised |-> "NetworkXNoPath", path |-> <<>>]

\* ConceptGraph.find_path
find_path(G, from_concept, to_concept) ==
  LET sp == shortest_path(G, from_concept, to_concept)
      path == sp.path
  IN CASE sp.raised = "NetworkXNoPath" ->
            [kind |-> "no_connection", from |-> from_concept, to |-> to_concept]
       [] sp.raised = "NodeNotFound" ->
            [kind |-> "concept_not_found", from |-> from_concept, to |-> to_concept]
       [] OTHER ->
            [ kind |-> "path", from |-> from_concept, to |-> to_concept,
              steps |-> [i \in 1..(Len(path) - 1) |->
                           [source |-> path[i],
                            rel |-> G.rel[<<path[i], path[i + 1]>>],
                            target |-> path[i + 1]]] ]

\* ConceptGraph.get_statistics
get_statistics(G) ==
  [ total_concepts |-> Cardinality(NodeSet(G)),
    total_relationships |-> number_of_edges(G),
    concept_types |-> Cardinality({IF "type" \in DOMAIN G.attr[n]
                                     THEN G.attr[n]["type"] ELSE "unknown" :
                                   n \in NodeSet(G)}) ]

(***************************************************************************)
(* nx.single_source_shortest_path_length(G.to_undirected(), source, cutoff) *)
(***************************************************************************)
\* the neighbours of n when only the edges leaving n are followed
SuccessorsOnly(G, n) == Range(G.succ[n])

\* the neighbours of n in self.graph.to_undirected()
UndirectedAdj(G, n) == Range(G.succ[n]) \cup Range(G.pred[n])

RECURSIVE BfsLengths(_, _, _, _, _)
\* the level loop: dist maps every node seen so far to its distance
BfsLengths(G, dist, nextlevel, level, cutoff) ==
  IF nextlevel = {} \/ ~(cutoff > level)
    THEN dist
    ELSE LET found == (UNION {UndirectedAdj(G, v) : v \in nextlevel}) \ (DOMAIN dist)
         IN BfsLengths(G, dist @@ [n \in found |-> level + 1], found, level + 1, cutoff)

single_source_shortest_path_length(G, source, cutoff) ==
  BfsLengths(G, (source :> 0), {source}, 0, cutoff)

\* ConceptGraph.get_related_concepts: the set `related` before list(related)
get_related_concepts(G, concept, depth) ==
  IF concept \notin NodeSet(G)
    THEN {}
    ELSE {node \in DOMAIN single_source_shortest_path_length(G, concept, depth) :
            node # concept}

\* list(a_set): the elements once each, in an order the caller cannot rely on
ListsOf(S) == {l \in [1..Cardinality(S) -> S] : Range(l) = S}

(***************************************************************************)
(* MetacognitionSpace                                                      *)
(***************************************************************************)
DefaultThreshold == 70

stop_words ==
  { <<"w","h","a","t">>, <<"i","s">>, <<"a","r","e">>, <<"t","h","e">>, <<"a">>,
    <<"a","n">>, <<"h","o","w">>, <<"d","o","e","s">>, <<"d","o">>, <<"c","a","n">>,
    <<"c","o","u","l","d">>, <<"w","o","u","l","d">>, <<"s","h","o","u","l","d">>,
    <<"a","b","o","u","t">>, <<"t","o">> }

\* MetacognitionSpace._extract_keywords
extract_keywords(question) ==
  LET words == Split(Remove(Remove(Lower(Chars[question]), "?"), ","))
  IN SelectSeq(words, LAMBDA w : w \notin stop_words /\ Len(w) > 2)

\* any(word in node.lower() for word in words)
Matches(node, words) ==
  \E i \in 1..Len(words) : IsSubstring(words[i], Lower(Chars[node]))

\* The two computations above, tabulated once for the model's questions and names.
Keywords == [q \in Questions |-> extract_keywords(q)]
IsRelevant == [q \in Questions |-> [n \in Names |-> Matches(n, Keywords[q])]]

\* [n for n in self.kb.graph.nodes() if any(w in n.lower() for w in words)]
RelevantConcepts(G, question) ==
  SelectSeq(G.nodes, LAMBDA node : IsRelevant[question][node])

Min(a, b) == IF a <= b THEN a ELSE b

\* _fast_thinking without its single-concept branch
fast_thinking_no_single(G, question) ==
  LET relevant_concepts == RelevantConcepts(G, question)
  IN IF relevant_concepts = <<>>
       THEN [answer |-> [kind |-> "dont_know"], confidence |-> 0]
       ELSE [answer |-> [kind |-> "joined",
                         parts |-> [i \in 1..Min(3, Len(relevant_concepts)) |->
                                      explain_concept(G, relevant_concepts[i])]],
             confidence |-> 50]

\* MetacognitionSpace._fast_thinking
fast_thinking(G, question) ==
  LET relevant_concepts == RelevantConcepts(G, question)
  IN IF relevant_concepts = <<>>
       THEN [answer |-> [kind |-> "dont_know"], confidence |-> 0]
       ELSE IF Len(relevant_concepts) = 1
         THEN [answer |-> explain_concept(G, relevant_concepts[1]), confidence |-> 80]
         ELSE [answer |-> [kind |-> "joined",
                           parts |-> [i \in 1..Min(3, Len(relevant_concepts)) |->
                                        explain_concept(G, relevant_concepts[i])]],
               confidence |-> 50]

\* "No connection" in path, on the text find_path renders: the marker is in
\* the no-connection message and in a rendered name or label that contains it.
HasMarker(text) == IsSubstring(Chars["No connection"], Chars[text])
MarkerIn == [text \in Names \cup Labels |-> HasMarker(text)]

ContainsNoConnection(path) ==
  \/ path.kind = "no_connection"
  \/ MarkerIn[path.from]
  \/ MarkerIn[path.to]
  \/ /\ path.kind = "path"
     /\ \E i \in 1..Len(path.steps) :
          \/ MarkerIn[path.steps[i].source]
          \/ MarkerIn[path.steps[i].rel]
          \/ MarkerIn[path.steps[i].target]

RECURSIVE PairsFrom(_, _, _)
\* the (i, j) visited by "for i, concept in enumerate(relevant): for other in relevant[i+1:]"
PairsFrom(n, i, j) ==
  IF i > n THEN <<>>
  ELSE IF j > n THEN PairsFrom(n, i + 1, i + 2)
  ELSE <<(<<i, j>>)>> \o PairsFrom(n, i, j + 1)

\* the paths _slow_thinking appends to the reasoning chain
FoundPaths(G, relevant) ==
  LET pairs == PairsFrom(Len(relevant), 1, 2)
      all == [k \in 1..Len(pairs) |-> find_path(G, relevant[pairs[k][1]], relevant[pairs[k][2]])]
  IN SelectSeq(all, LAMBDA path : ~ContainsNoConnection(path))

\* MetacognitionSpace._generate_learning_request
generate_learning_request(question) ==
  [kind |-> "learning_request", question |-> question]

LogEntry(question, now) ==
  [question |-> question, timestamp |-> now, mode |-> "deep_thinking"]

\* _slow_thinking explaining relevant[:3], as the fast path does
slow_thinking_top3(G, log, question, now) ==
  LET log2 == Append(log, LogEntry(question, now))
      relevant == RelevantConcepts(G, question)
  IN IF relevant = <<>>
       THEN [answer |-> generate_learning_request(question), log |-> log2]
       ELSE [answer |-> [kind |-> "deep",
                         chain |-> [i \in 1..Min(3, Len(relevant)) |->
                                      explain_concept(G, relevant[i])]
                                     \o FoundPaths(G, relevant)],
             log |-> log2]

\* _slow_thinking that logs only once it has found a relevant concept
slow_thinking_log_if_relevant(G, log, question, now) ==
  LET relevant == RelevantConcepts(G, question)
  IN IF relevant = <<>>
       THEN [answer |-> generate_learning_request(question), log |-> log]
       ELSE [answer |-> [kind |-> "deep",
                         chain |-> [i \in 1..Len(relevant) |-> explain_concept(G, relevant[i])]
                                     \o FoundPaths(G, relevant)],
             log |-> Append(log, LogEntry(question, now))]

\* _slow_thinking that puts the new entry in front of the log
slow_thinking_prepend(G, log, question, now) ==
  LET log2 == <<LogEntry(question, now)>> \o log
      relevant == RelevantConcepts(G, question)
  IN IF relevant = <<>>
       THEN [answer |-> generate_learning_request(question), log |-> log2]
       ELSE [answer |-> [kind |-> "deep",
                         chain |-> [i \in 1..Len(relevant) |-> explain_concept(G, relevant[i])]
                                     \o FoundPaths(G, relevant)],
             log |-> log2]

\* MetacognitionSpace._slow_thinking: the answer and the thinking log it leaves
slow_thinking(G, log, question, now) ==
  LET log2 == Append(log, LogEntry(question, now))
      relevant == RelevantConcepts(G, question)
  IN IF relevant = <<>>
       THEN [answer |-> generate_learning_request(question), log |-> log2]
       ELSE [answer |-> [kind |-> "deep",
                         chain |-> [i \in 1..Len(relevant) |-> explain_concept(G, relevant[i])]
                                     \o FoundPaths(G, relevant)],
             log |-> log2]

\* the comparison turned round
FastIsEnoughInverted(confidence, threshold) == confidence < threshold

\* the comparison made inclusive
FastIsEnoughOrEqual(confidence, threshold) == confidence >= threshold

\* if confidence > self.confidence_threshold
FastIsEnough(confidence, threshold) == confidence > threshold

\* process_question that goes straight to the slow path for a question the
\* log already holds
process_question_remembering(G, threshold, log, question, now) ==
  LET fast == fast_thinking(G, question)
      asked == \E i \in 1..Len(log) : log[i].question = question
  IN IF FastIsEnough(fast.confidence, threshold) /\ ~asked
       THEN [answer |-> fast.answer, log |-> log,
             printed |-> [mode |-> "fast", confidence |-> fast.confidence]]
       ELSE LET slow == slow_thinking(G, log, question, now)
            IN [answer |-> slow.answer, log |-> slow.log,
                printed |-> [mode |-> "deep", confidence |-> fast.confidence]]

\* MetacognitionSpace.process_question: answer, log, and what it prints
process_question(G, threshold, log, question, now) ==
  LET fast == fast_thinking(G, question)
  IN IF FastIsEnough(fast.confidence, threshold)
       THEN [answer |-> fast.answer, log |-> log,
             printed |-> [mode |-> "fast", confidence |-> fast.confidence]]
       ELSE LET slow == slow_thinking(G, log, question, now)
            IN [answer |-> slow.answer, log |-> slow.log,
                printed |-> [mode |-> "deep", confidence |-> fast.confidence]]

\* MetacognitionSpace.analyze_confidence
analyze_confidence(G, threshold, question) ==
  LET fast == fast_thinking(G, question)
  IN [ confidence |-> fast.confidence,
       will_use_system |-> IF fast.confidence > threshold THEN 1 ELSE 2,
       relevant_concepts_found |-> Len(RelevantConcepts(G, question)),
       keywords_extracted |-> Keywords[question] ]

\* the range check without its upper end
ThresholdRejectedBelow(threshold) == ~(0 <= threshold)

\* if not 0 <= threshold <= 1
ThresholdRejected(threshold) == ~(0 <= threshold /\ threshold <= 100)

(***************************************************************************)
(* IdeologyFramework: self.ideologies is a dict, kept here as the sequence *)
(* of its entries in insertion order, each entry carrying its key.         *)
(* A values dict is the sequence of its (value, weight) items.             *)
(***************************************************************************)
IdeologyKeys(S) == {S[i].name : i \in 1..Len(S)}

Entry(S, name) == S[CHOOSE i \in 1..Len(S) : S[i].name = name]

\* self.ideologies[name] = entry
Put(S, name, entry) ==
  IF name \in IdeologyKeys(S)
    THEN [i \in 1..Len(S) |-> IF S[i].name = name THEN entry ELSE S[i]]
    ELSE Append(S, entry)

\* del self.ideologies[name]
Delete(S, name) == SelectSeq(S, LAMBDA e : e.name # name)

\* any() for all()
WeightsValidAny(core_values) ==
  \E i \in 1..Len(core_values) :
    0 <= core_values[i].weight /\ core_values[i].weight <= 100

\* all(0 <= v <= 1 for v in core_values.values())
WeightsValid(core_values) ==
  \A i \in 1..Len(core_values) :
    0 <= core_values[i].weight /\ core_values[i].weight <= 100

\* examples or []
OrEmpty(examples) == IF examples.is_none THEN <<>> ELSE examples.items

\* IdeologyFramework.teach_ideology: the store it leaves
teach_ideology(S, name, core_values, principles, description, examples) ==
  IF ~WeightsValid(core_values)
    THEN S
    ELSE Put(S, name, [name |-> name, values |-> core_values, principles |-> principles,
                       description |-> description, examples |-> OrEmpty(examples)])

\* IdeologyFramework.get_ideology
get_ideology(S, name) ==
  IF name \in IdeologyKeys(S)
    THEN [kind |-> "dict", entry |-> Entry(S, name)]
    ELSE [kind |-> "None"]

\* IdeologyFramework.list_ideologies
list_ideologies(S) == [i \in 1..Len(S) |-> S[i].name]

(***************************************************************************)
(* IdeologyFramework: analysis.  A report is kept as the record of the     *)
(* parts the code concatenates; a weight w stands for w/100, so the code's *)
(* 0.7 and 0.8 are 70 and 80, int(importance * 10) is w \div 10 and the    *)
(* two decimals of {importance:.2f} are w itself.                          *)
(***************************************************************************)
\* values.get(key, default)
Get(values, key, default) ==
  IF \E i \in 1..Len(values) : values[i].value = key
    THEN values[CHOOSE i \in 1..Len(values) : values[i].value = key].weight
    ELSE default

\* any(word in situation_lower for word in words)
AnyWordIn(words, situation_lower) ==
  \E i \in 1..Len(words) : IsSubstring(Chars[words[i]], situation_lower)

government_words == <<"government", "regulation", "law", "mandate">>
economy_words == <<"economy", "market", "business", "wealth">>

\* the value_keywords dict of _assess_value_impact
value_keywords ==
  [ freedom |-> <<"liberty", "choice", "autonomy">>,
    equality |-> <<"equal", "fair", "equitable">>,
    security |-> <<"safe", "protect", "stability">>,
    property |-> <<"ownership", "private", "assets">>,
    collective |-> <<"common", "shared", "together">> ]

\* value_keywords.get(value_lower, [])
KeywordsOf(value_lower) ==
  IF \E k \in DOMAIN value_keywords : Chars[k] = value_lower
    THEN value_keywords[CHOOSE k \in DOMAIN value_keywords : Chars[k] = value_lower]
    ELSE <<>>

\* IdeologyFramework._assess_value_impact, for every situation and value
ImpactOf ==
  [ situation \in DOMAIN Chars |->
      [ value \in DOMAIN Chars |->
          LET situation_lower == Lower(Chars[situation])
              value_lower == Lower(Chars[value])
          IN IF IsSubstring(value_lower, situation_lower)
               THEN "Directly affected"
               ELSE IF AnyWordIn(KeywordsOf(value_lower), situation_lower)
                      THEN "Indirectly impacted"
                      ELSE "Minimal impact" ] ]

assess_value_impact(situation, value) == ImpactOf[situation][value]

\* any(word in situation_lower for word in [...]) of _generate_recommendation,
\* for every situation
GovernmentWordIn ==
  [ situation \in DOMAIN Chars |-> AnyWordIn(government_words, Lower(Chars[situation])) ]
EconomyWordIn ==
  [ situation \in DOMAIN Chars |-> AnyWordIn(economy_words, Lower(Chars[situation])) ]

\* max(values.items(), key=lambda x: x[1])[0] with the last maximal item for the first
LastMax(values) ==
  values[CHOOSE i \in 1..Len(values) :
           /\ \A j \in 1..Len(values) : values[j].weight <= values[i].weight
           /\ \A j \in (i + 1)..Len(values) : values[j].weight < values[i].weight].value

\* max(values.items(), key=lambda x: x[1])[0]: the first item of maximal weight
FirstMax(values) ==
  values[CHOOSE i \in 1..Len(values) :
           /\ \A j \in 1..Len(values) : values[j].weight <= values[i].weight
           /\ \A j \in 1..(i - 1) : values[j].weight < values[i].weight].value

Recommend(kind, top_value) ==
  [raised |-> "none", kind |-> kind, top_value |-> top_value]

\* the if / elif under the government keyword test; None when neither returns
GovernmentBlock(values) ==
  IF Get(values, "limited_government", 0) > 70 \/ Get(values, "freedom", 0) > 80
    THEN "oppose_intervention"
    ELSE IF Get(values, "collective_welfare", 0) > 70 \/ Get(values, "equality", 0) > 80
           THEN "support_if_welfare"
           ELSE None

\* the if / elif under the economy keyword test; None when neither returns
EconomyBlock(values) ==
  IF Get(values, "free_markets", 0) > 70
    THEN "free_markets"
    ELSE IF Get(values, "equality", 0) > 80
           THEN "equitable_distribution"
           ELSE None

\* IdeologyFramework._generate_recommendation (principles is not read)
generate_recommendation(situation, values) ==
  LET gov == IF GovernmentWordIn[situation] THEN GovernmentBlock(values) ELSE None
      eco == IF EconomyWordIn[situation] THEN EconomyBlock(values) ELSE None
  IN IF gov # None THEN Recommend(gov, None)
     ELSE IF eco # None THEN Recommend(eco, None)
     ELSE IF values = <<>>
            THEN [raised |-> "ValueError", kind |-> None, top_value |-> None]
            ELSE Recommend("prioritize", FirstMax(values))

\* r with x put behind the items that sorted(..., reverse=True) keeps before it
InsertDescending(r, x) ==
  LET k == Cardinality({i \in 1..Len(r) : r[i].weight >= x.weight})
  IN SubSeq(r, 1, k) \o <<x>> \o SubSeq(r, k + 1, Len(r))

RECURSIVE SortInto(_, _)
SortInto(r, values) ==
  IF values = <<>> THEN r ELSE SortInto(InsertDescending(r, Head(values)), Tail(values))

\* sorted(values.items(), key=lambda x: x[1], reverse=True): stable
sorted_values(values) == SortInto(<<>>, values)

\* IdeologyFramework.analyze_from_perspective
analyze_from_perspective(S, situation, ideology_name) ==
  IF ideology_name \notin IdeologyKeys(S)
    THEN [raised |-> "none", kind |-> "not_learned", name |-> ideology_name]
    ELSE LET ideology == Entry(S, ideology_name)
             ranked == sorted_values(ideology.values)
             recommendation == generate_recommendation(situation, ideology.values)
         IN IF recommendation.raised # "none"
              THEN [raised |-> recommendation.raised, kind |-> None, name |-> ideology_name]
              ELSE [raised |-> "none", kind |-> "analysis", name |-> ideology_name,
                    overview |-> IF ideology.description # ""
                                   THEN ideology.description ELSE None,
                    ranking |-> [i \in 1..Len(ranked) |->
                                   [value |-> ranked[i].value,
                                    bar |-> ranked[i].weight \div 10,
                                    shown |-> ranked[i].weight]],
                    situation |-> situation,
                    impacts |-> [i \in 1..Len(ranked) |->
                                   [value |-> ranked[i].value,
                                    impact |-> assess_value_impact(situation,
                                                                   ranked[i].value)]],
                    principles |-> ideology.principles,
                    recommendation |-> recommendation]

\* [i for i in ideologies if i in self.ideologies]
ValidIdeologies(S, names) == SelectSeq(names, LAMBDA i : i \in IdeologyKeys(S))

\* IdeologyFramework._synthesize_perspectives
synthesize_perspectives(S, names) ==
  LET valid_ideologies == ValidIdeologies(S, names)
      all_values == UNION {{Entry(S, valid_ideologies[k]).values[i].value :
                              i \in 1..Len(Entry(S, valid_ideologies[k]).values)} :
                            k \in 1..Len(valid_ideologies)}
  IN IF valid_ideologies = <<>>
       THEN [kind |-> "nothing_to_synthesize", distinct_values |-> 0, frameworks |-> 0]
       ELSE [kind |-> "summary", distinct_values |-> Cardinality(all_values),
             frameworks |-> Len(valid_ideologies)]

\* the names the loop of compare_perspectives analyses, in its order
Reported(S, names) == SelectSeq(names, LAMBDA i : i \in IdeologyKeys(S))

\* IdeologyFramework.compare_perspectives
compare_perspectives(S, situation, names) ==
  LET reported == Reported(S, names)
      analyses == [i \in 1..Len(reported) |->
                     analyze_from_perspective(S, situation, reported[i])]
  IN IF \E i \in 1..Len(analyses) : analyses[i].raised # "none"
       THEN [raised |-> "ValueError", kind |-> None]
       ELSE [raised |-> "none", kind |-> "comparison", situation |-> situation,
             analyses |-> analyses, synthesis |-> synthesize_perspectives(S, names)]

Init ==
  /\ graph = EmptyGraph
  /\ confidence_threshold = DefaultThreshold
  /\ thinking_log = <<>>
  /\ ideologies = <<>>
  /\ ret = [op |-> "init"]

\* MetacognitionSpace.__init__ called with a confidence_threshold argument,
\* which it stores as given, over a new ConceptGraph and IdeologyFramework
InitWithThreshold(threshold) ==
  /\ graph = EmptyGraph
  /\ confidence_threshold = threshold
  /\ thinking_log = <<>>
  /\ ideologies = <<>>
  /\ ret = [op |-> "init"]

AddConcept(name, concept_type, definition, attributes, now) ==
  /\ graph' = AddNode(graph, name, ConceptAttrs(concept_type, definition, now, attributes))
  /\ ret' = [op |-> "add_concept", name |-> name,
             given |-> ConceptAttrs(concept_type, definition, now, attributes)]
  /\ UNCHANGED <<confidence_threshold, thinking_log, ideologies>>

\* the guard with `and` for `or`
ConnectGuardBoth(G, from_concept, to_concept) ==
  from_concept \notin NodeSet(G) /\ to_concept \notin NodeSet(G)

\* if from_concept not in self.graph or to_concept not in self.graph
ConnectGuard(G, from_concept, to_concept) ==
  from_concept \notin NodeSet(G) \/ to_concept \notin NodeSet(G)

\* ConceptGraph.connect_concepts
Connect(from_concept, to_concept, relationship) ==
  /\ graph' = IF ConnectGuard(graph, from_concept, to_concept)
                THEN graph
                ELSE AddEdge(graph, from_concept, to_concept, relationship)
  /\ ret' = [op |-> "connect_concepts", from |-> from_concept, to |-> to_concept,
             relationship |-> relationship, raised |-> "none"]
  /\ UNCHANGED <<confidence_threshold, thinking_log, ideologies>>

\* connect_concepts while the graph has room for the relationship
ConnectConcepts(from_concept, to_concept, relationship) ==
  /\ \/ ConnectGuard(graph, from_concept, to_concept)
     \/ <<from_concept, to_concept>> \in EdgeSet(graph)
     \/ number_of_edges(graph) < MaxEdges
  /\ Connect(from_concept, to_concept, relationship)

GetConcept(name) ==
  /\ ret' = [op |-> "get_concept", name |-> name, value |-> get_concept(graph, name)]
  /\ UNCHANGED <<graph, confidence_threshold, thinking_log, ideologies>>

FindPath(from_concept, to_concept) ==
  /\ ret' = [op |-> "find_path", from |-> from_concept, to |-> to_concept,
             value |-> find_path(graph, from_concept, to_concept), raised |-> "none"]
  /\ UNCHANGED <<graph, confidence_threshold, thinking_log, ideologies>>

ExplainConcept(concept) ==
  /\ ret' = [op |-> "explain_concept", name |-> concept,
             value |-> explain_concept(graph, concept)]
  /\ UNCHANGED <<graph, confidence_threshold, thinking_log, ideologies>>

GetRelatedConcepts(concept, depth) ==
  /\ \E related \in ListsOf(get_related_concepts(graph, concept, depth)) :
       ret' = [op |-> "get_related_concepts", name |-> concept, depth |-> depth,
               related |-> related]
  /\ UNCHANGED <<graph, confidence_threshold, thinking_log, ideologies>>

GetStatistics ==
  /\ ret' = [op |-> "get_statistics", stats |-> get_statistics(graph)]
  /\ UNCHANGED <<graph, confidence_threshold, thinking_log, ideologies>>

\* MetacognitionSpace.process_question
Ask(question, now) ==
  LET r == process_question(graph, confidence_threshold, thinking_log, question, now)
  IN /\ thinking_log' = r.log
     /\ ret' = [op |-> "process_question", question |-> question, now |-> now,
                value |-> r.answer, printed |-> r.printed, raised |-> "none"]
     /\ UNCHANGED <<graph, confidence_threshold, ideologies>>

\* process_question while the thinking log has room for what it appends
ProcessQuestion(question, now) ==
  /\ Len(process_question(graph, confidence_threshold, thinking_log, question, now).log)
       <= MaxLog
  /\ Ask(question, now)

\* process_question in the specification that follows a longer log
ProcessQuestionWithHistory(question, now) ==
  /\ Len(process_question(graph, confidence_threshold, thinking_log, question, now).log)
       <= MaxHistory
  /\ Ask(question, now)

AnalyzeConfidence(question) ==
  /\ ret' = [op |-> "analyze_confidence", question |-> question,
             analysis |-> analyze_confidence(graph, confidence_threshold, question)]
  /\ UNCHANGED <<graph, confidence_threshold, thinking_log, ideologies>>

GetThinkingLog ==
  /\ ret' = [op |-> "get_thinking_log", log |-> thinking_log]
  /\ UNCHANGED <<graph, confidence_threshold, thinking_log, ideologies>>

ClearLog ==
  /\ thinking_log' = <<>>
  /\ ret' = [op |-> "clear_log"]
  /\ UNCHANGED <<graph, confidence_threshold, ideologies>>

SetConfidenceThreshold(threshold) ==
  /\ confidence_threshold' = IF ThresholdRejected(threshold)
                               THEN confidence_threshold ELSE threshold
  /\ ret' = [op |-> "set_confidence_threshold", threshold |-> threshold,
             raised |-> IF ThresholdRejected(threshold) THEN "ValueError" ELSE "none"]
  /\ UNCHANGED <<graph, thinking_log, ideologies>>

TeachIdeology(name, core_values, principles, description, examples) ==
  /\ \/ ~WeightsValid(core_values)
     \/ name \in IdeologyKeys(ideologies)
     \/ Len(ideologies) < MaxIdeologies
  /\ ideologies' = teach_ideology(ideologies, name, core_values, principles,
                                  description, examples)
  /\ ret' = [op |-> "teach_ideology", name |-> name, core_values |-> core_values,
             raised |-> IF WeightsValid(core_values) THEN "none" ELSE "ValueError"]
  /\ UNCHANGED <<graph, confidence_threshold, thinking_log>>

GetIdeology(name) ==
  /\ ret' = [op |-> "get_ideology", name |-> name, value |-> get_ideology(ideologies, name)]
  /\ UNCHANGED <<graph, confidence_threshold, thinking_log, ideologies>>

ListIdeologies ==
  /\ ret' = [op |-> "list_ideologies", names |-> list_ideologies(ideologies)]
  /\ UNCHANGED <<graph, confidence_threshold, thinking_log, ideologies>>

RemoveIdeology(name) ==
  /\ ideologies' = IF name \in IdeologyKeys(ideologies)
                     THEN Delete(ideologies, name) ELSE ideologies
  /\ ret' = [op |-> "remove_ideology", name |-> name,
             removed |-> name \in IdeologyKeys(ideologies)]
  /\ UNCHANGED <<graph, confidence_threshold, thinking_log>>

AnalyzeFromPerspective(situation, ideology_name) ==
  /\ ret' = [op |-> "analyze_from_perspective", situation |-> situation,
             name |-> ideology_name,
             raised |-> analyze_from_perspective(ideologies, situation, ideology_name).raised,
             value |-> analyze_from_perspective(ideologies, situation, ideology_name)]
  /\ UNCHANGED <<graph, confidence_threshold, thinking_log, ideologies>>

ComparePerspectives(situation, ideologies_to_compare) ==
  /\ ret' = [op |-> "compare_perspectives", situation |-> situation,
             names |-> ideologies_to_compare,
             raised |-> compare_perspectives(ideologies, situation,
                                             ideologies_to_compare).raised,
             value |-> compare_perspectives(ideologies, situation, ideologies_to_compare)]
  /\ UNCHANGED <<graph, confidence_threshold, thinking_log, ideologies>>

(***************************************************************************)
(* Specifications                                                          *)
(***************************************************************************)
GraphNames == {"Law", "Bylaw", "Tax"}
Depths == {0, 1, 2}
Types == {"general", "value"}
Definitions == {"", "Rules"}
ExtraAttrs == {NoAttrs, [importance |-> "high"], [importance |-> "low"]}

\* The graph store alone: concepts without attributes of interest, every edge.
NextGraph ==
  \/ \E name \in GraphNames : AddConcept(name, "general", "", NoAttrs, "t1")
  \/ \E s \in GraphNames, t \in GraphNames, r \in Labels : ConnectConcepts(s, t, r)
  \/ \E s \in GraphNames, t \in GraphNames : FindPath(s, t)
  \/ GetStatistics

SpecGraph == Init /\ [][NextGraph]_vars

\* The graph store over a fixed set of relationships with a cycle
\* (Law .. Tax -> Law) and two routes of different length from Law to Tax.
PathNames == {"Law", "Bylaw", "Lawyer", "Tax"}
PathLinks ==
  { <<"Law", "Bylaw", "relates_to">>, <<"Bylaw", "Lawyer", "relates_to">>,
    <<"Lawyer", "Tax", "relates_to">>, <<"Law", "Lawyer", "No connection">>,
    <<"Tax", "Law", "relates_to">> }

NextPaths ==
  \/ \E name \in PathNames : AddConcept(name, "general", "", NoAttrs, "t1")
  \/ \E l \in PathLinks : Connect(l[1], l[2], l[3])
  \/ \E s \in PathNames, t \in PathNames : FindPath(s, t)
  \/ \E c \in PathNames, depth \in Depths : GetRelatedConcepts(c, depth)

SpecPaths == Init /\ [][NextPaths]_vars

\* The concepts and their attributes alone.
NextNodes ==
  \/ \E name \in {"Law", "Tax"}, ct \in Types, d \in Definitions,
        a \in ExtraAttrs, now \in Times : AddConcept(name, ct, d, a, now)
  \/ \E name \in {"Law", "Tax"} : GetConcept(name)
  \/ \E name \in {"Law", "Tax"} : ExplainConcept(name)

SpecNodes == Init /\ [][NextNodes]_vars

\* The reasoning controller over a graph taught with a fixed set of calls.
MindConcepts ==
  { <<"Law", "Rules">>, <<"Bylaw", "">>, <<"Lawyer", "">>, <<"Tax", "Levy">> }
MindLinks ==
  { <<"Law", "Bylaw", "relates_to">>, <<"Bylaw", "Lawyer", "No connection">>,
    <<"Tax", "Law", "relates_to">> }
Thresholds == {-1, 0, 50, 80, 100, 101}

NextMind ==
  \/ \E c \in MindConcepts : AddConcept(c[1], "general", c[2], NoAttrs, "t1")
  \/ \E l \in MindLinks : ConnectConcepts(l[1], l[2], l[3])
  \/ \E q \in Questions : ProcessQuestion(q, "t1")
  \/ \E q \in Questions : AnalyzeConfidence(q)
  \/ GetThinkingLog
  \/ ClearLog
  \/ \E t \in Thresholds : SetConfidenceThreshold(t)

SpecMind == Init /\ [][NextMind]_vars

\* The reasoning controller over two unconnected concepts, with a log long
\* enough to hold entries of different questions and times.
LogConcepts == {"Law", "Bylaw"}
LogThresholds == {0, 80, 101}

NextLog ==
  \/ \E c \in LogConcepts : AddConcept(c, "general", "", NoAttrs, "t1")
  \/ \E q \in Questions, now \in Times : ProcessQuestionWithHistory(q, now)
  \/ \E q \in Questions : AnalyzeConfidence(q)
  \/ GetThinkingLog
  \/ ClearLog
  \/ \E t \in LogThresholds : SetConfidenceThreshold(t)

SpecLog == Init /\ [][NextLog]_vars

\* The reasoning controller constructed with any threshold argument.
ConstructorThresholds == {-50, 0, 70, 100, 150}

InitAnyThreshold == \E threshold \in ConstructorThresholds : InitWithThreshold(threshold)

NextThreshold ==
  \/ \E c \in LogConcepts : AddConcept(c, "general", "", NoAttrs, "t1")
  \/ \E q \in Questions : ProcessQuestion(q, "t1")
  \/ \E q \in Questions : AnalyzeConfidence(q)
  \/ ClearLog
  \/ \E t \in Thresholds : SetConfidenceThreshold(t)

SpecThreshold == InitAnyThreshold /\ [][NextThreshold]_vars

\* The ideology store.
IdeologyNames == {"Libertarianism", "Socialism", "Unknown"}
W(value, weight) == [value |-> value, weight |-> weight]
ValueDicts ==
  { <<W("freedom", 95), W("limited_government", 85)>>,
    <<W("equality", 95), W("collective_welfare", 90)>>,
    <<W("security", 0), W("property", 100)>>,
    <<>>,
    <<W("freedom", 150)>>,
    <<W("equality", 50), W("security", -1)>> }
TeachExtras ==
  { [description |-> "", examples |-> [is_none |-> TRUE, items |-> <<>>]],
    [description |-> "overview", examples |-> [is_none |-> FALSE, items |-> <<"case">>]] }

NextIdeology ==
  \/ \E name \in IdeologyNames, v \in ValueDicts, x \in TeachExtras :
       TeachIdeology(name, v, <<"principle">>, x.description, x.examples)
  \/ \E name \in IdeologyNames : GetIdeology(name)
  \/ ListIdeologies
  \/ \E name \in IdeologyNames : RemoveIdeology(name)

SpecIdeology == Init /\ [][NextIdeology]_vars

\* The ideology store with accepted ideologies only, and the analyses over it.
Situations == {"New law", "Fair market", "Market law", "Freedom"}
AnalysisDicts ==
  { <<W("freedom", 95), W("limited_government", 85)>>,
    <<W("equality", 95), W("collective_welfare", 90)>>,
    <<W("collective_welfare", 90), W("limited_government", 85)>>,
    <<W("free_markets", 80), W("security", 80)>>,
    <<W("equality", 85), W("free_markets", 75)>>,
    <<W("limited_government", 70), W("freedom", 80), W("property", 90)>>,
    <<>> }
NameLists ==
  { <<>>, <<"Unknown">>, <<"Libertarianism", "Unknown">>,
    <<"Socialism", "Libertarianism">>, <<"Socialism", "Unknown", "Socialism">> }

NextAnalysis ==
  \/ \E name \in {"Libertarianism", "Socialism"}, v \in AnalysisDicts, x \in TeachExtras :
       TeachIdeology(name, v, <<"principle">>, x.description, x.examples)
  \/ \E s \in Situations, name \in IdeologyNames : AnalyzeFromPerspective(s, name)
  \/ \E s \in Situations, l \in NameLists : ComparePerspectives(s, l)

SpecAnalysis == Init /\ [][NextAnalysis]_vars

(***************************************************************************)
(* Properties                                                              *)
(***************************************************************************)
IsConnect(r) == r.op = "connect_concepts"
IsAsk(r) == r.op = "process_question"

\* the concepts relevant to a question: some keyword is a substring of the lowered name
RelevantSet(G, question) ==
  {n \in NodeSet(G) : IsRelevant[question][n]}

\* C1: connect_concepts with an endpoint that is not a concept returns without
\* raising and leaves the graph as it was: nodes, edges, labels, edge count.
C1_UnknownEndpointIsNoOp ==
  [][ (IsConnect(ret') /\ (ret'.from \notin NodeSet(graph) \/ ret'.to \notin NodeSet(graph)))
        => /\ ret'.raised = "none"
           /\ NodeSet(graph') = NodeSet(graph)
           /\ EdgeSet(graph') = EdgeSet(graph)
           /\ number_of_edges(graph') = number_of_edges(graph)
           /\ graph' = graph ]_vars

C1_Witness ==
  /\ IsConnect(ret)
  /\ ret.from \in NodeSet(graph)
  /\ ret.to \notin NodeSet(graph)
  /\ number_of_edges(graph) > 0

\* C2 as stated: after add_concept(X, ...), get_concept(X) shows exactly the
\* attribute set of that call, whatever an earlier call for X gave.
C2_OnlyLastCallVisible ==
  ret.op = "add_concept" => get_concept(graph, ret.name).attrs = ret.given

\* C2 amended: add_concept(X, ...) for a name already in the graph merges: every
\* attribute of the call is shown with the call's value, and every attribute
\* key of X that the call does not give stays with its earlier value.
C2_LaterCallMerges ==
  [][ ret'.op = "add_concept"
        => LET before == get_concept(graph, ret'.name)
               after == get_concept(graph', ret'.name)
               kept == IF before.kind = "dict"
                         THEN (DOMAIN before.attrs) \ (DOMAIN ret'.given) ELSE {}
           IN /\ after.kind = "dict"
              /\ DOMAIN after.attrs = (DOMAIN ret'.given) \cup kept
              /\ \A k \in DOMAIN ret'.given : after.attrs[k] = ret'.given[k]
              /\ \A k \in kept : after.attrs[k] = before.attrs[k] ]_vars

C2_Witness ==
  /\ ret.op = "add_concept"
  /\ "importance" \notin DOMAIN ret.given
  /\ "importance" \in DOMAIN get_concept(graph, ret.name).attrs

\* C3 as stated: at the default threshold a question with no relevant concept
\* has fast confidence 0.0 and process_question answers "I don't know yet".
C3_DontKnowReturned ==
  (IsAsk(ret) /\ confidence_threshold = DefaultThreshold
     /\ RelevantSet(graph, ret.question) = {})
    => (ret.printed.confidence = 0 /\ ret.value.kind = "dont_know")

\* C3 amended: at the default threshold a question with no relevant concept has
\* fast confidence 0.0, which does not exceed the threshold, so process_question
\* takes the slow path: it returns the learning request for the question and
\* the last entry of the thinking log is the one for this question.
C3_LearningRequestReturned ==
  (IsAsk(ret) /\ confidence_threshold = DefaultThreshold
     /\ RelevantSet(graph, ret.question) = {})
    => /\ ret.printed = [mode |-> "deep", confidence |-> 0]
       /\ ret.value = [kind |-> "learning_request", question |-> ret.question]
       /\ thinking_log # <<>>
       /\ thinking_log[Len(thinking_log)].question = ret.question
       /\ thinking_log[Len(thinking_log)].mode = "deep_thinking"

C3_Witness ==
  /\ IsAsk(ret)
  /\ confidence_threshold = DefaultThreshold
  /\ RelevantSet(graph, ret.question) = {}
  /\ graph.nodes # <<>>
  /\ ret.value.kind = "learning_request"

\* C4: at the default threshold, when exactly one concept is relevant,
\* process_question returns explain_concept of that concept on the fast path at
\* confidence 0.8 and the thinking log keeps its length.
C4_SingleMatchFastPath ==
  [][ (IsAsk(ret') /\ confidence_threshold = DefaultThreshold
         /\ Cardinality(RelevantSet(graph, ret'.question)) = 1)
        => LET c == CHOOSE n \in RelevantSet(graph, ret'.question) : TRUE
           IN /\ ret'.value = explain_concept(graph, c)
              /\ ret'.printed = [mode |-> "fast", confidence |-> 80]
              /\ Len(thinking_log') = Len(thinking_log) ]_vars

C4_Witness ==
  /\ IsAsk(ret)
  /\ confidence_threshold = DefaultThreshold
  /\ Cardinality(RelevantSet(graph, ret.question)) = 1
  /\ Len(graph.nodes) > 1
  /\ ret.value.kind = "explanation"
  /\ ret.value.incoming # <<>>

C7_NoLogWithoutRelevant ==
  [][ (IsAsk(ret') /\ ret'.printed.mode = "deep"
         /\ RelevantSet(graph, ret'.question) = {})
        => /\ ret'.value.kind = "learning_request"
           /\ thinking_log' = thinking_log ]_vars

\* C7 amended: when the slow path is entered and no concept is relevant,
\* process_question returns the learning request and appends one log entry
\* (question, timestamp, mode deep_thinking); the slow path appends that entry
\* on every entry, whether or not a concept is relevant.
C7_SlowPathAlwaysLogs ==
  [][ (IsAsk(ret') /\ ret'.printed.mode = "deep")
        => /\ thinking_log' =
                Append(thinking_log,
                       [question |-> ret'.question, timestamp |-> ret'.now,
                        mode |-> "deep_thinking"])
           /\ (RelevantSet(graph, ret'.question) = {})
                => ret'.value = [kind |-> "learning_request", question |-> ret'.question] ]_vars

C7_Witness ==
  /\ IsAsk(ret)
  /\ ret.printed.mode = "deep"
  /\ RelevantSet(graph, ret.question) = {}
  /\ ret.value.kind = "learning_request"
  /\ thinking_log # <<>>
  /\ thinking_log[Len(thinking_log)].question = ret.question

\* C8: teach_ideology with a weight outside [0,1] fails with a validation error
\* and leaves the store as it was: an absent name stays out of list_ideologies()
\* and a taught name keeps the entry get_ideology() returned before.
C8_InvalidWeightRejected ==
  [][ (ret'.op = "teach_ideology"
         /\ \E i \in 1..Len(ret'.core_values) :
              ret'.core_values[i].weight < 0 \/ ret'.core_values[i].weight > 100)
        => /\ ret'.raised = "ValueError"
           /\ ideologies' = ideologies
           /\ list_ideologies(ideologies') = list_ideologies(ideologies)
           /\ (ret'.name \notin Range(list_ideologies(ideologies)))
                => ret'.name \notin Range(list_ideologies(ideologies'))
           /\ (ret'.name \in Range(list_ideologies(ideologies)))
                => get_ideology(ideologies', ret'.name) = get_ideology(ideologies, ret'.name) ]_vars

C8_Witness ==
  /\ ret.op = "teach_ideology"
  /\ ret.raised = "ValueError"
  /\ \E i \in 1..Len(ret.core_values) :
       0 <= ret.core_values[i].weight /\ ret.core_values[i].weight <= 100
  /\ ret.name \in IdeologyKeys(ideologies)

\* C9: set_confidence_threshold(t) with t outside [0,1] fails with a validation
\* error and leaves threshold and thinking log unchanged; with t in [0,1] the
\* threshold becomes t.
C9_ThresholdValidated ==
  [][ ret'.op = "set_confidence_threshold"
        => IF ret'.threshold < 0 \/ ret'.threshold > 100
             THEN /\ ret'.raised = "ValueError"
                  /\ confidence_threshold' = confidence_threshold
                  /\ thinking_log' = thinking_log
             ELSE /\ ret'.raised = "none"
                  /\ confidence_threshold' = ret'.threshold
                  /\ thinking_log' = thinking_log ]_vars

C9_Witness ==
  /\ ret.op = "set_confidence_threshold"
  /\ ret.raised = "ValueError"
  /\ ret.threshold > 100
  /\ confidence_threshold # DefaultThreshold
  /\ thinking_log # <<>>

OneStep(A, r, B) ==
  [kind |-> "path", from |-> A, to |-> B,
   steps |-> <<[source |-> A, rel |-> r, target |-> B]>>]

\* C10 as stated: for all concepts A and B of the graph, after
\* connect_concepts(A, B, r), find_path(A, B) renders exactly A --[r]--> B.
C10_ConnectThenOneStep ==
  (IsConnect(ret) /\ ret.from \in NodeSet(graph) /\ ret.to \in NodeSet(graph))
    => find_path(graph, ret.from, ret.to) = OneStep(ret.from, ret.relationship, ret.to)

\* C10 amended: for all distinct concepts A and B of the graph, after
\* connect_concepts(A, B, r), find_path(A, B) renders exactly the one step
\* A --[r]--> B, whatever other edges exist.
C10_ConnectDistinctThenOneStep ==
  (IsConnect(ret) /\ ret.from \in NodeSet(graph) /\ ret.to \in NodeSet(graph)
     /\ ret.from # ret.to)
    => find_path(graph, ret.from, ret.to) = OneStep(ret.from, ret.relationship, ret.to)

C10_Witness ==
  /\ IsConnect(ret)
  /\ ret.from \in NodeSet(graph) /\ ret.to \in NodeSet(graph)
  /\ ret.from # ret.to
  /\ number_of_edges(graph) >= 2
  /\ <<ret.to, ret.from>> \in EdgeSet(graph)

\* the concepts a directed walk from a concept of S reaches, S included
RECURSIVE ReachableFrom(_, _)
ReachableFrom(G, S) ==
  LET T == S \cup {e[2] : e \in {d \in EdgeSet(G) : d[1] \in S}}
  IN IF T = S THEN S ELSE ReachableFrom(G, T)

HasDirectedPath(G, s, t) == t \in ReachableFrom(G, {s})

\* C11: find_path never raises; it gives the "No connection found" message
\* exactly when both concepts are in the graph and no directed path leads from
\* the first to the second, the "Concept not found" message exactly when one of
\* them is not in the graph, and a rendered path in every other case.
C11_DistinctFailureMessages ==
  ret.op = "find_path"
    => LET known == ret.from \in NodeSet(graph) /\ ret.to \in NodeSet(graph)
       IN /\ ret.raised = "none"
          /\ ret.value.kind \in {"no_connection", "concept_not_found", "path"}
          /\ (ret.value.kind = "no_connection")
               <=> (known /\ ~HasDirectedPath(graph, ret.from, ret.to))
          /\ (ret.value.kind = "concept_not_found") <=> ~known
          /\ (ret.value.kind = "path")
               <=> (known /\ HasDirectedPath(graph, ret.from, ret.to))

C11_Witness ==
  /\ ret.op = "find_path"
  /\ ret.value.kind = "no_connection"
  /\ HasDirectedPath(graph, ret.to, ret.from)
  /\ Cardinality(NodeSet(graph)) < Cardinality(GraphNames)

RECURSIVE WithinHops(_, _, _)
\* the concepts at most k edges away from a concept of S, edge direction ignored
WithinHops(G, S, k) ==
  IF k <= 0 THEN S
  ELSE WithinHops(G,
                  S \cup {e[2] : e \in {d \in EdgeSet(G) : d[1] \in S}}
                    \cup {e[1] : e \in {d \in EdgeSet(G) : d[2] \in S}},
                  k - 1)

\* C12: get_related_concepts(C, depth) returns, once each, exactly the concepts
\* other than C at undirected distance 1..depth from C: for depth 1 the direct
\* predecessors and successors, for depth 0 nothing, for an unknown C nothing.
C12_RelatedWithinDepth ==
  ret.op = "get_related_concepts"
    => LET c == ret.name
           got == Range(ret.related)
       IN /\ Len(ret.related) = Cardinality(got)
          /\ c \notin got
          /\ c \notin NodeSet(graph) => got = {}
          /\ c \in NodeSet(graph) => got = WithinHops(graph, {c}, ret.depth) \ {c}
          /\ ret.depth = 0 => got = {}
          /\ (ret.depth = 1 /\ c \in NodeSet(graph))
               => got = {n \in NodeSet(graph) \ {c} :
                           <<c, n>> \in EdgeSet(graph) \/ <<n, c>> \in EdgeSet(graph)}

C12_Witness ==
  /\ ret.op = "get_related_concepts"
  /\ ret.name \in NodeSet(graph)
  /\ ret.depth = 2
  /\ graph.succ[ret.name] = <<>>
  /\ Len(ret.related) = 2
  /\ \E n \in Range(ret.related) : <<n, ret.name>> \notin EdgeSet(graph)

\* the situations that contain a government word, and an economy word
MentionsGovernment == {"New law", "Market law"}
MentionsEconomy == {"Fair market", "Market law"}

WeightOf(values, key) == Get(values, key, 0)

\* the cascade (a)..(e), first match wins
Cascade(situation, values) ==
  LET gov == situation \in MentionsGovernment
      eco == situation \in MentionsEconomy
  IN CASE gov /\ (WeightOf(values, "limited_government") > 70
                    \/ WeightOf(values, "freedom") > 80) -> "oppose_intervention"
       [] gov /\ ~(WeightOf(values, "limited_government") > 70
                     \/ WeightOf(values, "freedom") > 80)
              /\ (WeightOf(values, "collective_welfare") > 70
                    \/ WeightOf(values, "equality") > 80) -> "support_if_welfare"
       [] OTHER ->
            IF eco /\ WeightOf(values, "free_markets") > 70 THEN "free_markets"
            ELSE IF eco /\ WeightOf(values, "equality") > 80 THEN "equitable_distribution"
            ELSE "prioritize"

IsAnalysisOfKnown(r) ==
  r.op = "analyze_from_perspective" /\ r.name \in IdeologyKeys(ideologies)

\* C13: the recommendation of analyze_from_perspective for a registered ideology
\* is the one the cascade (a)..(e) selects, first match wins, and under (e) it
\* names a value of the ideology that no other value outweighs.
C13_CascadeFollowed ==
  IsAnalysisOfKnown(ret)
    => LET values == Entry(ideologies, ret.name).values
       IN /\ ret.raised = "none"
          /\ ret.value.kind = "analysis"
          /\ ret.value.recommendation.kind = Cascade(ret.situation, values)
          /\ ret.value.recommendation.kind = "prioritize"
               => \E i \in 1..Len(values) :
                    /\ values[i].value = ret.value.recommendation.top_value
                    /\ \A j \in 1..Len(values) : values[j].weight <= values[i].weight

\* the entries of names that are registered ideologies, in the order given
RegisteredAmong(names) == SelectSeq(names, LAMBDA n : n \in IdeologyKeys(ideologies))

ValueNames(name) ==
  {Entry(ideologies, name).values[i].value : i \in 1..Len(Entry(ideologies, name).values)}

\* C14: compare_perspectives(situation, names) holds one analysis report per
\* entry of names that is registered and none for the others; its synthesis
\* counts as many frameworks as there are reports and as many distinct values
\* as the union of those ideologies' value names has; with no registered entry
\* the synthesis is the "No valid ideologies to synthesize." message.
C14_OneReportPerRegistered ==
  ret.op = "compare_perspectives"
    => LET valid == RegisteredAmong(ret.names)
       IN /\ ret.raised = "none"
          /\ Len(ret.value.analyses) = Len(valid)
          /\ \A i \in 1..Len(valid) :
               /\ ret.value.analyses[i].kind = "analysis"
               /\ ret.value.analyses[i].name = valid[i]
          /\ valid = <<>> => ret.value.synthesis.kind = "nothing_to_synthesize"
          /\ valid # <<>>
               => /\ ret.value.synthesis.kind = "summary"
                  /\ ret.value.synthesis.frameworks = Len(ret.value.analyses)
                  /\ ret.value.synthesis.distinct_values
                       = Cardinality(UNION {ValueNames(valid[i]) : i \in 1..Len(valid)})

RECURSIVE WithinSteps(_, _, _)
\* the concepts a directed walk of at most k edges from a concept of S reaches
WithinSteps(G, S, k) ==
  IF k <= 0 THEN S
  ELSE WithinSteps(G, S \cup {e[2] : e \in {d \in EdgeSet(G) : d[1] \in S}}, k - 1)

\* C15: a path rendered by find_path(s, t) starts at s and ends at t, each of
\* its steps u --[l]--> v is a directed edge u -> v of the graph carrying the
\* label l, consecutive steps are chained, and no directed walk from s to t
\* has fewer edges; this holds in graphs with cycles too.
C15_ShortestDirectedPath ==
  (ret.op = "find_path" /\ ret.value.kind = "path")
    => LET steps == ret.value.steps
           n == Len(steps)
       IN /\ n = 0 => ret.from = ret.to
          /\ n > 0 => steps[1].source = ret.from /\ steps[n].target = ret.to
          /\ \A i \in 1..n :
               /\ <<steps[i].source, steps[i].target>> \in EdgeSet(graph)
               /\ graph.rel[<<steps[i].source, steps[i].target>>] = steps[i].rel
          /\ \A i \in 1..(n - 1) : steps[i].target = steps[i + 1].source
          /\ n > 0 => ret.to \notin WithinSteps(graph, {ret.from}, n - 1)

\* the two-step route from Law to Tax rendered while the three-step route and
\* the cycle through Tax -> Law are in the graph
C15_Witness ==
  /\ ret.op = "find_path" /\ ret.value.kind = "path"
  /\ ret.from = "Law" /\ ret.to = "Tax"
  /\ Len(ret.value.steps) = 2
  /\ EdgeSet(graph) = {<<l[1], l[2]>> : l \in PathLinks}
  /\ graph.succ["Law"] = <<"Bylaw", "Lawyer">>

IsSlowAsk(r) == r.op = "process_question" /\ r.printed.mode = "deep"

\* C16: the thinking log is changed only by a process_question that takes the
\* slow path, which appends one entry behind the entries already there, and by
\* clear_log, which empties it; every other call, a process_question answered
\* on the fast path included, leaves the log as it was.
C16_LogFrame ==
  [][ /\ IsSlowAsk(ret')
        => /\ Len(thinking_log') = Len(thinking_log) + 1
           /\ SubSeq(thinking_log', 1, Len(thinking_log)) = thinking_log
      /\ ret'.op = "clear_log" => thinking_log' = <<>>
      /\ ~(IsSlowAsk(ret') \/ ret'.op = "clear_log") => thinking_log' = thinking_log
    ]_vars

C16_Witness ==
  /\ IsSlowAsk(ret)
  /\ Len(thinking_log) = 2
  /\ thinking_log[1].question # thinking_log[2].question
  /\ thinking_log[2].question = ret.question

IsSuccessfulConnect(G, r) ==
  IsConnect(r) /\ r.from \in NodeSet(G) /\ r.to \in NodeSet(G)

\* C17: every relationship joins two concepts of the graph (stated on each step
\* that changes the graph; the graph of the start has no relationship); an ordered pair
\* carries at most one relationship, whose label is the one of the latest
\* successful connect_concepts for the pair (a successful call sets the label of
\* its pair and of no other, every other call leaves all labels alone); a
\* reconnected pair changes label and the relationship count stays as it was.
C17_OneLabelPerPair ==
  [][ /\ graph' # graph
           => /\ \A e \in EdgeSet(graph') :
                   e[1] \in NodeSet(graph') /\ e[2] \in NodeSet(graph')
              /\ \A u \in NodeSet(graph') :
                   /\ Len(graph'.succ[u]) = Cardinality(Range(graph'.succ[u]))
                   /\ Range(graph'.succ[u])
                        = {v \in NodeSet(graph') : <<u, v>> \in EdgeSet(graph')}
                   /\ Len(graph'.pred[u]) = Cardinality(Range(graph'.pred[u]))
                   /\ Range(graph'.pred[u])
                        = {v \in NodeSet(graph') : <<v, u>> \in EdgeSet(graph')}
      /\ IsSuccessfulConnect(graph, ret')
           => /\ EdgeSet(graph') = EdgeSet(graph) \cup {<<ret'.from, ret'.to>>}
              /\ graph'.rel[<<ret'.from, ret'.to>>] = ret'.relationship
              /\ \A e \in EdgeSet(graph) \ {<<ret'.from, ret'.to>>} :
                   graph'.rel[e] = graph.rel[e]
              /\ <<ret'.from, ret'.to>> \in EdgeSet(graph)
                   => /\ number_of_edges(graph') = number_of_edges(graph)
                      /\ get_statistics(graph').total_relationships
                           = get_statistics(graph).total_relationships
      /\ ~IsSuccessfulConnect(graph, ret') => graph'.rel = graph.rel
      /\ ret'.op = "get_statistics"
           => ret'.stats.total_relationships = Cardinality(EdgeSet(graph'))
    ]_vars

C17_Witness ==
  /\ IsConnect(ret)
  /\ <<ret.from, ret.to>> \in EdgeSet(graph)
  /\ graph.rel[<<ret.from, ret.to>>] = "No connection"
  /\ number_of_edges(graph) = MaxEdges
  /\ \E e \in EdgeSet(graph) : graph.rel[e] = "relates_to"

\* the matched concepts of a question in the graph's iteration order
MatchedInOrder(G, question) ==
  SelectSeq(G.nodes, LAMBDA n : n \in RelevantSet(G, question))

\* the paths that follow the explanations in a slow-path synthesis
TrailingPaths(G, r) ==
  SubSeq(r.value.chain, Len(MatchedInOrder(G, r.question)) + 1, Len(r.value.chain))

\* C18: in a slow-path synthesis a path is appended for a pair (earlier, later)
\* of matched concepts, in the graph's iteration order, exactly when a directed
\* path leads from the earlier to the later one; no pair contributes two paths
\* and no path runs from a later concept to an earlier one.
C18_PathIffDirected ==
  (IsAsk(ret) /\ ret.value.kind = "deep")
    => LET order == MatchedInOrder(graph, ret.question)
           paths == TrailingPaths(graph, ret)
           For(i, j) == {k \in 1..Len(paths) :
                           paths[k].from = order[i] /\ paths[k].to = order[j]}
       IN /\ \A i \in 1..Len(order), j \in 1..Len(order) :
               /\ i < j => /\ Cardinality(For(i, j)) <= 1
                           /\ For(i, j) # {} <=> HasDirectedPath(graph, order[i], order[j])
               /\ i >= j => For(i, j) = {}
          /\ \A k \in 1..Len(paths) : paths[k].kind = "path"

\* the place of a value name among the items of a values dict
InsertedAt(values, name) == CHOOSE i \in 1..Len(values) : values[i].value = name

\* C19: a report of analyze_from_perspective ranks every value of the ideology
\* once, by descending weight and, among equal weights, in insertion order;
\* the impact list follows the ranking; a fallback recommendation names the
\* first-inserted value of maximal weight, which is the first of the ranking.
C19_StableDescendingRanking ==
  (IsAnalysisOfKnown(ret) /\ ret.raised = "none")
    => LET values == Entry(ideologies, ret.name).values
           ranking == ret.value.ranking
           n == Len(values)
       IN /\ Len(ranking) = n
          /\ {ranking[i].value : i \in 1..n} = {values[i].value : i \in 1..n}
          /\ \A i \in 1..n : ranking[i].shown = values[InsertedAt(values, ranking[i].value)].weight
          /\ \A i \in 1..n, j \in 1..n :
               i < j => \/ ranking[i].shown > ranking[j].shown
                        \/ /\ ranking[i].shown = ranking[j].shown
                           /\ InsertedAt(values, ranking[i].value)
                                < InsertedAt(values, ranking[j].value)
          /\ \A i \in 1..n : ret.value.impacts[i].value = ranking[i].value
          /\ ret.value.recommendation.kind = "prioritize"
               => /\ ret.value.recommendation.top_value = ranking[1].value
                  /\ \A k \in 1..n :
                       \/ values[k].weight < ranking[1].shown
                       \/ InsertedAt(values, ranking[1].value) <= k

C19_Witness ==
  /\ IsAnalysisOfKnown(ret) /\ ret.raised = "none"
  /\ ret.value.recommendation.kind = "prioritize"
  /\ Len(ret.value.ranking) = 2
  /\ ret.value.ranking[1].shown = ret.value.ranking[2].shown
  /\ \E name \in IdeologyKeys(ideologies) :
       /\ Len(Entry(ideologies, name).values) = 3
       /\ Entry(ideologies, name).values[3].weight > Entry(ideologies, name).values[1].weight

\* every thinking log of at most two entries over the questions and times
SomeLogs ==
  LET entries == {LogEntry(q, t) : q \in Questions, t \in Times}
  IN {<<>>} \cup {<<e>> : e \in entries} \cup {<<e, f>> : e \in entries, f \in entries}

\* C20: the answer of process_question and the path it takes are those the
\* same question gets over the same graph with the same threshold whatever the
\* thinking log holds, so neither depends on the log or on earlier questions.
C20_AnswerIgnoresLog ==
  IsAsk(ret)
    => \A log \in SomeLogs :
         LET other == process_question(graph, confidence_threshold, log,
                                       ret.question, ret.now)
         IN /\ other.answer = ret.value
            /\ other.printed = ret.printed

C20_Witness ==
  /\ IsAsk(ret)
  /\ ret.printed.mode = "fast"
  /\ Len(thinking_log) = 2
  /\ \E i \in 1..Len(thinking_log) : thinking_log[i].question = ret.question

\* C21: over a store of accepted ideologies, one with an empty values mapping
\* included, analyze_from_perspective and compare_perspectives return a report
\* for every situation and never raise.
C21_AnalysesComplete ==
  ret.op \in {"analyze_from_perspective", "compare_perspectives"}
    => /\ ret.raised = "none"
       /\ ret.value.kind \in {"analysis", "not_learned", "comparison"}

\* C22: in every state of a MetacognitionSpace, from its construction with any
\* confidence_threshold argument on and after any set_confidence_threshold
\* calls, accepted or rejected, the configured threshold lies in [0,1].
C22_ThresholdInRange ==
  0 <= confidence_threshold /\ confidence_threshold <= 100

====
